---- MODULE Spec2Model ----
(***************************************************************************)
(* LSB steganography codec of steganography.py: get_max_capacity, encode   *)
(* and decode of class Steganography, with the conversions                 *)
(* _text_to_binary and _binary_to_text they use.                           *)
(*                                                                         *)
(* A text is a sequence of code points (ord of each character), a          *)
(* bitstream a sequence of 0/1 (the characters '0'/'1' of the Python       *)
(* binary strings), an image a record holding its size and the flattened   *)
(* RGB array np.array(img).flatten() (row-major, channel-minor, uint8).    *)
(* The loops of encode and decode advance one iteration per step.          *)
(***************************************************************************)
EXTENDS Integers, Sequences, FiniteSets, TLC

(* ------------------------------ bounds -------------------------------- *)

\* Longest payload built freely over Alphabet.
MaxLen == 2
\* Longest text placed before and after an embedded terminator.
MaxPad == 1
\* Tallest carrier image; the widths are those of Widths.
MaxHeight == 2

(* ------------------------- program constants -------------------------- *)

\* DELIMITER = "<<END>>"
DELIMITER == <<60, 60, 69, 78, 68, 62, 62>>

\* The three colour channels of an RGB image (total_pixels * 3).
Channels == 3

\* 0xFE, the mask that clears the least significant bit.
LsbMask == 254

(* ------------------------------ inputs -------------------------------- *)

\* 'A', U+00FF (the largest 8-bit code point), U+012C (outside it).
Alphabet == {65, 255, 300}

\* The text around an embedded terminator is made of 'A'.
PadAlphabet == {65}

\* Carrier sizes: widths 1, 9, 19, 22 by heights 1 and 2 give 3, 6, 27, 54,
\* 57, 66, 114 and 132 channel values: far below the terminator's 56 bits,
\* just below, just above (room for the empty payload only), room for one
\* character, room for a payload that itself holds a terminator with text
\* around it.
Widths == {1, 9, 19, 22}

Heights == 1..MaxHeight

\* Channel fills <<m, c>>: channel value j is (m * j + c) % 256.
\* All LSBs 0, and a mixed pattern of even and odd values.
Fills == {<<0, 0>>, <<37, 11>>}

RECURSIVE SeqsUpTo(_, _)
SeqsUpTo(S, n) ==
    IF n = 0 THEN {<<>>}
    ELSE LET shorter == SeqsUpTo(S, n - 1)
         IN  shorter \cup {Append(s, c) : s \in shorter, c \in S}

\* Payloads that hold the terminator literally, and then some text.
WithDelimiter ==
    {pre \o DELIMITER \o post : pre \in SeqsUpTo(PadAlphabet, MaxPad),
                                post \in SeqsUpTo(PadAlphabet, MaxPad)}

Payloads == SeqsUpTo(Alphabet, MaxLen) \cup WithDelimiter

Pixels(fill, n) == [j \in 1..n |-> (fill[1] * j + fill[2]) % 256]

(* --------------------------- bit arithmetic --------------------------- *)

RECURSIVE BitAnd(_, _)
BitAnd(a, b) ==
    IF a = 0 \/ b = 0 THEN 0
    ELSE (a % 2) * (b % 2) + 2 * BitAnd(a \div 2, b \div 2)

RECURSIVE BitOr(_, _)
BitOr(a, b) ==
    IF a = 0 THEN b
    ELSE IF b = 0 THEN a
    ELSE (IF a % 2 = 1 \/ b % 2 = 1 THEN 1 ELSE 0)
         + 2 * BitOr(a \div 2, b \div 2)

(* ------------------------ text <-> bitstream -------------------------- *)

\* The binary digits of n, most significant first, no padding ('b').
RECURSIVE Digits(_)
Digits(n) == IF n < 2 THEN <<n>> ELSE Append(Digits(n \div 2), n % 2)

\* format(ord(char), '08b'): zero-padded to a width of AT LEAST 8; a code
\* point above 255 yields more than 8 digits.
Format08b(n) ==
    LET d == Digits(n)
    IN  IF Len(d) >= 8 THEN d ELSE [k \in 1..(8 - Len(d)) |-> 0] \o d

\* _text_to_binary: ''.join(format(ord(char), '08b') for char in text)
RECURSIVE text_to_binary(_)
text_to_binary(text) ==
    IF text = <<>> THEN <<>>
    ELSE Format08b(Head(text)) \o text_to_binary(Tail(text))

\* int(byte, 2) reading the least significant bit first.
RECURSIVE BitsToIntLsbFirst(_)
BitsToIntLsbFirst(bits) ==
    IF bits = <<>> THEN 0
    ELSE bits[1] + 2 * BitsToIntLsbFirst(Tail(bits))

\* int(byte, 2)
RECURSIVE BitsToInt(_)
BitsToInt(bits) ==
    IF bits = <<>> THEN 0
    ELSE 2 * BitsToInt(SubSeq(bits, 1, Len(bits) - 1)) + bits[Len(bits)]

\* _binary_to_text: for i in range(0, len(binary), 8): byte = binary[i:i+8];
\* a byte of 8 bits becomes chr(int(byte, 2)), a shorter one is skipped.
RECURSIVE binary_to_text_from(_, _)
binary_to_text_from(binary, i) ==
    IF i >= Len(binary) THEN <<>>
    ELSE LET last == IF i + 8 <= Len(binary) THEN i + 8 ELSE Len(binary)
             byte == SubSeq(binary, i + 1, last)
         IN  (IF Len(byte) = 8 THEN <<BitsToInt(byte)>> ELSE <<>>)
             \o binary_to_text_from(binary, i + 8)

binary_to_text(binary) == binary_to_text_from(binary, 0)

(* ------------------------- string operations -------------------------- *)

\* The 0-based positions at which pat occurs in text.
Occurrences(text, pat) ==
    {k \in 0..(Len(text) - Len(pat)) : SubSeq(text, k + 1, k + Len(pat)) = pat}

\* self.DELIMITER in extracted_text
ContainsDelimiter(text) == Occurrences(text, DELIMITER) # {}

Min(S) == CHOOSE x \in S : \A y \in S : x <= y

\* extracted_text.split(self.DELIMITER)[1]: the piece after the first
\* terminator, up to the next one.
SplitSecond(text) ==
    IF Occurrences(text, DELIMITER) = {} THEN text
    ELSE LET rest == SubSeq(text, Min(Occurrences(text, DELIMITER))
                                  + Len(DELIMITER) + 1, Len(text))
         IN  IF Occurrences(rest, DELIMITER) = {} THEN rest
             ELSE SubSeq(rest, 1, Min(Occurrences(rest, DELIMITER)))

\* extracted_text.split(self.DELIMITER)[0]
SplitFirst(text) ==
    IF Occurrences(text, DELIMITER) = {} THEN text
    ELSE SubSeq(text, 1, Min(Occurrences(text, DELIMITER)))

(* ------------------------------ capacity ------------------------------ *)

\* available_bits / 8 rounded towards zero, as int(available_bits / 8).
max_chars_truncating(width, height) ==
    LET available_bits == width * height * Channels - Len(DELIMITER) * 8
    IN  IF available_bits >= 0 THEN available_bits \div 8
        ELSE -((-available_bits) \div 8)

\* get_max_capacity, lines 82-88: total_pixels = width * height;
\* total_bits = total_pixels * 3; delimiter_bits = len(DELIMITER) * 8;
\* available_bits = total_bits - delimiter_bits; available_bits // 8
\* (Python's // rounds towards minus infinity, as \div does).
max_chars(width, height) ==
    LET total_pixels == width * height
        total_bits == total_pixels * Channels
        delimiter_bits == Len(DELIMITER) * 8
        available_bits == total_bits - delimiter_bits
    IN  available_bits \div 8

(* ------------------------------- results ------------------------------ *)

\* What a call returned: encode and decode return (success, message), where
\* the message is one of the fixed texts (kind) or, for a successful decode,
\* the extracted text; get_max_capacity returns a number (value).  raised
\* tells that the call ended by an exception instead of returning.
Returned(op, success, kind, text, value) ==
    [op |-> op, success |-> success, kind |-> kind, text |-> text,
     value |-> value, raised |-> FALSE]

Raised(op) ==
    [op |-> op, success |-> FALSE, kind |-> "exception", text |-> <<>>,
     value |-> 0, raised |-> TRUE]

NoResult == Returned("none", FALSE, "none", <<>>, 0)

\* get_max_capacity: except Exception as e: return 0
capacity_except == Returned("get_max_capacity", FALSE, "capacity", <<>>, 0)

\* encode without its except clause: the exception reaches the caller.
encode_uncaught == Raised("encode")

\* encode: except Exception as e: return False, f"Error during encoding: ..."
encode_except == Returned("encode", FALSE, "encoding_error", <<>>, 0)

\* decode: except Exception as e: return False, f"Error during decoding: ..."
decode_except == Returned("decode", FALSE, "decoding_error", <<>>, 0)

\* return False, "Error: Image too small to hide this message. ..."
too_small == Returned("encode", FALSE, "too_small", <<>>, 0)

\* return True, "Message successfully hidden in image!"
hidden == Returned("encode", TRUE, "hidden", <<>>, 0)

\* return True, message
extracted(message) == Returned("decode", TRUE, "extracted", message, 0)

\* return False, "No hidden message found in this image. ..."
no_message == Returned("decode", FALSE, "no_message", <<>>, 0)

(* -------------------------------- state ------------------------------- *)

VARIABLES
    image,            \* the carrier file at image_path
    secret_text,      \* the payload handed to encode
    output,           \* the file at output_path
    pc,               \* "idle", or the loop the running call is in
    source,           \* the file the running or last decode reads
    flat_array,       \* the locals of the running call, kept after its
    binary_secret,    \*   return until the next encode or decode
    binary_message,   \*   begins: encode's and decode's flat_array,
    extracted_text,   \*   encode's binary_secret, decode's
    i,                \*   binary_message and extracted_text, the index i
    result,           \* what the last call returned
    handler           \* the run of the /encode request handler, if any

vars == <<image, secret_text, output, pc, source, flat_array, binary_secret,
          binary_message, extracted_text, i, result, handler>>

\* A path at which Image.open raises: no file, or not an image.
NoFile == [readable |-> FALSE, width |-> 0, height |-> 0, pixels |-> <<>>]

ImageFile(width, height, pixels) ==
    [readable |-> TRUE, width |-> width, height |-> height, pixels |-> pixels]

Carriers ==
    {ImageFile(w, h, Pixels(f, w * h * Channels)) :
        w \in Widths, h \in Heights, f \in Fills} \cup {NoFile}

\* The run of the /encode handler of app.py (api/index.py holds the same
\* code): at is the place the run has reached, has_image tells whether
\* 'image' is in request.files, filename is file.filename split at its
\* dots, upload the content of the uploaded file, input_exists whether a
\* file is at input_path (image holds its content), max_capacity, success
\* and message the handler's locals, status the HTTP status of the response
\* (0: none yet), events what the run has done so far, in order.
HandlerAt(at, has_image, filename, upload) ==
    [at |-> at, has_image |-> has_image, filename |-> filename,
     upload |-> upload, input_exists |-> FALSE, max_capacity |-> 0,
     success |-> FALSE, message |-> "none", status |-> 0, events |-> <<>>]

\* No request is being handled: the codec is called directly.
NoRequest == HandlerAt("none", FALSE, <<>>, NoFile)

Init ==
    /\ handler = NoRequest
    /\ image \in Carriers
    /\ secret_text \in Payloads
    /\ output = NoFile
    /\ pc = "idle"
    /\ source = "image"
    /\ flat_array = <<>>
    /\ binary_secret = <<>>
    /\ binary_message = <<>>
    /\ extracted_text = <<>>
    /\ i = 0
    /\ result = NoResult

(* --------------------------- get_max_capacity ------------------------- *)

GetMaxCapacity ==
    /\ pc = "idle"
    /\ result' = IF image.readable
                 THEN Returned("get_max_capacity", TRUE, "capacity", <<>>,
                               max_chars(image.width, image.height))
                 ELSE capacity_except
    /\ UNCHANGED <<image, secret_text, output, pc, source, flat_array,
                   binary_secret, binary_message, extracted_text, i>>

(* -------------------------------- encode ------------------------------ *)

\* The size check counting 8 bits per channel value.
TooLargeForBytes(binary, flat) == Len(binary) > Len(flat) * 8

\* if len(binary_secret) > len(flat_array)
TooLarge(binary, flat) == Len(binary) > Len(flat)

\* flat_array[i] | int(bit): the old least significant bit is not cleared.
LsbWriteNoClear(value, bit) == BitOr(value, bit)

\* int(bit): the whole channel value is replaced by the bit.
LsbWriteWholeValue(value, bit) == bit

\* (flat_array[i] & 0xFE) | int(bit)
LsbWrite(value, bit) == BitOr(BitAnd(value, LsbMask), bit)

\* Lines 113-127: open and flatten the image, build the bitstream, check
\* its size, enter the loop.
EncodeBegin ==
    /\ pc = "idle"
    /\ source' = "image"
    /\ binary_message' = <<>>
    /\ extracted_text' = <<>>
    /\ IF ~image.readable
       THEN /\ result' = encode_except
            /\ flat_array' = <<>>
            /\ binary_secret' = <<>>
            /\ i' = 0
            /\ pc' = "idle"
       ELSE LET secret_text_with_delimiter == secret_text \o DELIMITER
                binary == text_to_binary(secret_text_with_delimiter)
            IN  /\ flat_array' = image.pixels
                /\ binary_secret' = binary
                /\ i' = 0
                /\ IF TooLarge(binary, image.pixels)
                   THEN /\ result' = too_small
                        /\ pc' = "idle"
                   ELSE /\ result' = NoResult
                        /\ pc' = "encode_loop"
    /\ UNCHANGED <<image, secret_text, output>>

\* Lines 127-128: one iteration of for i, bit in enumerate(binary_secret).
\* An index past the array raises IndexError, caught at line 137.
EncodeStep ==
    /\ pc = "encode_loop"
    /\ i < Len(binary_secret)
    /\ IF i >= Len(flat_array)
       THEN /\ result' = encode_except
            /\ pc' = "idle"
            /\ UNCHANGED <<flat_array, i>>
       ELSE /\ flat_array' = [flat_array EXCEPT
                                ![i + 1] = LsbWrite(@, binary_secret[i + 1])]
            /\ i' = i + 1
            /\ UNCHANGED <<result, pc>>
    /\ UNCHANGED <<image, secret_text, output, source, binary_secret,
                   binary_message, extracted_text>>

\* Lines 130-135: reshape to the original shape and save as PNG (lossless:
\* the file holds the array); a save that raises is caught at line 137.
EncodeSave ==
    /\ pc = "encode_loop"
    /\ i = Len(binary_secret)
    /\ \E saved \in BOOLEAN :
          IF saved
          THEN /\ output' = ImageFile(image.width, image.height, flat_array)
               /\ result' = hidden
          ELSE /\ output' = output
               /\ result' = encode_except
    /\ pc' = "idle"
    /\ UNCHANGED <<image, secret_text, source, flat_array, binary_secret,
                   binary_message, extracted_text, i>>

(* -------------------------------- decode ------------------------------ *)

\* The return of line 177 indented into the loop body: the scan ends
\* after its first iteration.
ScanEndsAfterFirst(index, flat) == index >= 1 \/ index = Len(flat)

\* The for loop of line 167 has consumed every value of flat_array.
ScanExhausted(index, flat) == index = Len(flat)

\* if len(binary_message) >= 8 and len(binary_message) % 8 == 0
AtByteBoundary(binary) == Len(binary) >= 8 /\ Len(binary) % 8 = 0

\* Lines 157-165: open and flatten the image at image_path, which is the
\* carrier or the file encode saved.
DecodeBegin ==
    /\ pc = "idle"
    /\ \E src \in {"image", "output"} :
          LET file == IF src = "image" THEN image ELSE output
          IN  /\ source' = src
              /\ IF ~file.readable
                 THEN /\ result' = decode_except
                      /\ flat_array' = <<>>
                      /\ pc' = "idle"
                 ELSE /\ flat_array' = file.pixels
                      /\ result' = NoResult
                      /\ pc' = "decode_loop"
    /\ binary_secret' = <<>>
    /\ binary_message' = <<>>
    /\ extracted_text' = <<>>
    /\ i' = 0
    /\ UNCHANGED <<image, secret_text, output>>

\* Lines 167-175: one iteration of for i, value in enumerate(flat_array).
DecodeStep ==
    /\ pc = "decode_loop"
    /\ ~ScanExhausted(i, flat_array)
    /\ LET value == flat_array[i + 1]
           binary == Append(binary_message, BitAnd(value, 1))
           text == IF AtByteBoundary(binary) THEN binary_to_text(binary)
                   ELSE extracted_text
       IN  /\ binary_message' = binary
           /\ extracted_text' = text
           /\ IF AtByteBoundary(binary) /\ ContainsDelimiter(text)
              THEN /\ result' = extracted(SplitFirst(text))
                   /\ pc' = "idle"
                   /\ i' = i
              ELSE /\ i' = i + 1
                   /\ UNCHANGED <<result, pc>>
    /\ UNCHANGED <<image, secret_text, output, source, flat_array,
                   binary_secret>>

\* Line 177: the loop ended without a return.
DecodeExhausted ==
    /\ pc = "decode_loop"
    /\ ScanExhausted(i, flat_array)
    /\ result' = no_message
    /\ pc' = "idle"
    /\ UNCHANGED <<image, secret_text, output, source, flat_array,
                   binary_secret, binary_message, extracted_text, i>>

(* ---------------------------- specification --------------------------- *)

Next ==
    \/ GetMaxCapacity /\ UNCHANGED handler
    \/ EncodeBegin /\ UNCHANGED handler
    \/ EncodeStep /\ UNCHANGED handler
    \/ EncodeSave /\ UNCHANGED handler
    \/ DecodeBegin /\ UNCHANGED handler
    \/ DecodeStep /\ UNCHANGED handler
    \/ DecodeExhausted /\ UNCHANGED handler

Spec == Init /\ [][Next]_vars

(* ------------------------- the /encode handler ------------------------ *)

\* ALLOWED_EXTENSIONS = {'png', 'jpg', 'jpeg'}
ALLOWED_EXTENSIONS == {"png", "jpg", "jpeg"}

\* str.lower() on the extensions the requests use.
Lower(ext) == IF ext = "PNG" THEN "png" ELSE ext

\* allowed_file: '.' in filename and
\* filename.rsplit('.', 1)[1].lower() in ALLOWED_EXTENSIONS
allowed_file(filename) ==
    Len(filename) >= 2 /\ Lower(filename[Len(filename)]) \in ALLOWED_EXTENSIONS

\* file.filename of the requests: '', 'photo', 'photo.png', 'photo.PNG',
\* 'notes.txt', each split at its dots.
Filenames ==
    {<<"">>, <<"photo">>, <<"photo", "png">>, <<"photo", "PNG">>,
     <<"notes", "txt">>}

HandlerInit ==
    /\ handler \in {HandlerAt("start", has_image, filename, upload) :
                       has_image \in BOOLEAN, filename \in Filenames,
                       upload \in Carriers}
    /\ secret_text \in Payloads
    /\ image = NoFile
    /\ output = NoFile
    /\ pc = "idle"
    /\ source = "image"
    /\ flat_array = <<>>
    /\ binary_secret = <<>>
    /\ binary_message = <<>>
    /\ extracted_text = <<>>
    /\ i = 0
    /\ result = NoResult

codec_locals == <<pc, source, flat_array, binary_secret, binary_message,
                  extracted_text, i, result>>

\* return jsonify({...}), status: the run ends with a response.
Responded(h, status, message, events) ==
    [h EXCEPT !.at = "responded", !.status = status, !.message = message,
              !.events = h.events \o events \o <<"respond">>]

\* Lines 109-122: the checks of the request, before anything is saved.
Validate ==
    /\ handler.at = "start"
    /\ handler' =
          IF ~handler.has_image
          THEN Responded(handler, 400, "no_image_file", <<>>)
          ELSE IF handler.filename = <<"">>
          THEN Responded(handler, 400, "no_file_selected", <<>>)
          ELSE IF secret_text = <<>>
          THEN Responded(handler, 400, "no_secret_text", <<>>)
          ELSE IF ~allowed_file(handler.filename)
          THEN Responded(handler, 400, "invalid_file_type", <<>>)
          ELSE [handler EXCEPT !.at = "save",
                               !.events = Append(@, "validated")]
    /\ UNCHANGED <<image, secret_text, output>>
    /\ UNCHANGED codec_locals

\* Line 128: file.save(input_path).  A save that raises leaves the handler
\* by the exception, which the framework answers with status 500.
SaveUpload ==
    /\ handler.at = "save"
    /\ \E saved \in BOOLEAN :
          IF saved
          THEN /\ image' = handler.upload
               /\ handler' = [handler EXCEPT !.at = "capacity",
                                              !.input_exists = TRUE,
                                              !.events = Append(@, "save")]
          ELSE /\ image' = image
               /\ handler' = Responded(handler, 500, "unhandled", <<>>)
    /\ UNCHANGED <<secret_text, output>>
    /\ UNCHANGED codec_locals

\* Line 130: max_capacity = stego.get_max_capacity(input_path)
CallGetMaxCapacity ==
    /\ handler.at = "capacity"
    /\ GetMaxCapacity
    /\ handler' = [handler EXCEPT !.at = "check",
                                   !.max_capacity = result'.value,
                                   !.events = Append(@, "get_max_capacity")]

\* The check with one character too many let through.
OverCapacityOffByOne(text, max_capacity) == Len(text) > max_capacity + 1

\* if len(secret_text) > max_capacity
OverCapacity(text, max_capacity) == Len(text) > max_capacity

\* Lines 131-136: a text over the capacity is answered 400 after
\* os.remove(input_path); an os.remove that raises here is not caught and
\* the framework answers with status 500.
CheckCapacity ==
    /\ handler.at = "check"
    /\ IF OverCapacity(secret_text, handler.max_capacity)
       THEN \E removed \in BOOLEAN :
               IF removed
               THEN /\ image' = NoFile
                    /\ handler' = [Responded(handler, 400, "text_too_long",
                                             <<"remove">>)
                                     EXCEPT !.input_exists = FALSE]
               ELSE /\ image' = image
                    /\ handler' = Responded(handler, 500, "unhandled",
                                            <<"remove", "remove_raised">>)
       ELSE /\ image' = image
            /\ handler' = [handler EXCEPT !.at = "encode"]
    /\ UNCHANGED <<secret_text, output>>
    /\ UNCHANGED codec_locals

\* success, message = stego.encode(...) once encode has returned.
EncodeReturnedTo(h) ==
    [h EXCEPT !.at = "cleanup", !.success = result'.success,
              !.message = result'.kind]

\* Line 138: success, message = stego.encode(input_path, secret_text,
\* output_path): the call, the iterations of encode's loop, its return.
CallEncode ==
    /\ handler.at = "encode"
    /\ EncodeBegin
    /\ LET called == [handler EXCEPT !.at = "in_encode",
                                     !.events = Append(@, "encode")]
       IN  handler' = IF pc' = "idle" THEN EncodeReturnedTo(called)
                      ELSE called

InEncodeStep ==
    /\ handler.at = "in_encode"
    /\ EncodeStep
    /\ handler' = IF pc' = "idle" THEN EncodeReturnedTo(handler) ELSE handler

InEncodeSave ==
    /\ handler.at = "in_encode"
    /\ EncodeSave
    /\ handler' = EncodeReturnedTo(handler)

\* Lines 140-143: try: os.remove(input_path) except: pass
Cleanup ==
    /\ handler.at = "cleanup"
    /\ \E removed \in BOOLEAN :
          IF removed
          THEN /\ image' = NoFile
               /\ handler' = [handler EXCEPT !.at = "respond",
                                              !.input_exists = FALSE,
                                              !.events = Append(@, "remove")]
          ELSE /\ image' = image
               /\ handler' = [handler EXCEPT !.at = "respond",
                                !.events = @ \o <<"remove", "remove_raised">>]
    /\ UNCHANGED <<secret_text, output>>
    /\ UNCHANGED codec_locals

\* Lines 145-153: the response carries encode's success and message.
Respond ==
    /\ handler.at = "respond"
    /\ handler' = Responded(handler, IF handler.success THEN 200 ELSE 400,
                            handler.message, <<>>)
    /\ UNCHANGED <<image, secret_text, output>>
    /\ UNCHANGED codec_locals

HandlerNext ==
    \/ Validate
    \/ SaveUpload
    \/ CallGetMaxCapacity
    \/ CheckCapacity
    \/ CallEncode
    \/ InEncodeStep
    \/ InEncodeSave
    \/ Cleanup
    \/ Respond

HandlerSpec == HandlerInit /\ [][HandlerNext]_vars

(* ------------------------------ properties ---------------------------- *)

\* A text of the data model: every character has an 8-bit code point.
EightBit(text) == \A k \in 1..Len(text) : text[k] <= 255

\* The text before the first occurrence of the terminator, by its
\* definition: a prefix followed by the terminator and holding none earlier.
BeforeFirstTerminator(text) ==
    CHOOSE prefix \in {SubSeq(text, 1, k) : k \in 0..Len(text)} :
        /\ SubSeq(text, Len(prefix) + 1, Len(prefix) + Len(DELIMITER))
             = DELIMITER
        /\ \A k \in 0..(Len(prefix) - 1) :
              SubSeq(text, k + 1, k + Len(DELIMITER)) # DELIMITER

HasTerminator(text) ==
    \E k \in 0..(Len(text) - Len(DELIMITER)) :
        SubSeq(text, k + 1, k + Len(DELIMITER)) = DELIMITER

\* The capacity of the carrier, as get_max_capacity computes it.
Capacity == max_chars(image.width, image.height)

\* The capacity of the specification: max(0, (w*h*3 - 56) // 8).
ClampedCapacity ==
    LET c == (image.width * image.height * 3 - 56) \div 8
    IN  IF c < 0 THEN 0 ELSE c

\* encode has returned and no later call has begun.
EncodeReturned == pc = "idle" /\ result.op = "encode"

\* decode has read the file encode saved, has returned, and no later call
\* has begun: result is decode(encode(image, secret_text)).
DecodedOutput ==
    /\ pc = "idle"
    /\ result.op = "decode"
    /\ source = "output"
    /\ output.readable

\* C1, as claimed, read over the payloads of the data model (8-bit
\* characters): whenever the capacity is at least 1 and len(T) <= capacity,
\* decode(encode(buffer, T)) = (True, T).
C1_RoundTripEveryPayload ==
    (DecodedOutput /\ EightBit(secret_text) /\ Capacity >= 1
       /\ Len(secret_text) <= Capacity)
    => result = extracted(secret_text)

\* C1, amended: for every carrier of capacity at least 1 and every payload T
\* of 8-bit characters with len(T) <= capacity that does not contain the
\* terminator "<<END>>", decode(encode(buffer, T)) = (True, T), whatever
\* the channel values of the carrier were.
C1_RoundTrip ==
    (DecodedOutput /\ EightBit(secret_text) /\ Capacity >= 1
       /\ Len(secret_text) <= Capacity /\ ~HasTerminator(secret_text))
    => result = extracted(secret_text)

\* A non-empty payload came back from a carrier whose channels encode
\* changed.
C1_Witness ==
    /\ DecodedOutput
    /\ EightBit(secret_text) /\ ~HasTerminator(secret_text)
    /\ Len(secret_text) >= 1 /\ Len(secret_text) <= Capacity
    /\ output.pixels # image.pixels
    /\ result = extracted(secret_text)

\* C2, as claimed: get_max_capacity returns max(0, (w*h*3 - 56) // 8) for
\* every readable carrier, and never a negative number.
C2_CapacityFormula ==
    (pc = "idle" /\ result.op = "get_max_capacity" /\ image.readable)
    => (result.value = ClampedCapacity /\ result.value >= 0)

\* C3: a payload longer than the capacity (the number get_max_capacity
\* returns, which is at most the clamped capacity of the specification) is
\* rejected with the capacity error before any channel value is written:
\* the write loop is never entered, no file is ever saved, and at the
\* return the array still holds the carrier's values.
C3_OversizedRejected ==
    (image.readable /\ Len(secret_text) > Capacity)
    => /\ pc # "encode_loop"
       /\ ~output.readable
       /\ EncodeReturned => (result = too_small /\ flat_array = image.pixels)

\* A non-empty payload was rejected by a carrier that has room for a
\* shorter one.
C3_Witness ==
    /\ EncodeReturned
    /\ image.readable
    /\ Capacity >= 1
    /\ Len(secret_text) > Capacity
    /\ result = too_small

\* C4: the saved buffer has the carrier's shape and length; below the
\* bitstream's length n each value keeps its bits 1..7 (v' & 0xFE =
\* v & 0xFE); from n on each value is the carrier's.
C4_LsbOnly ==
    output.readable
    => LET n == Len(text_to_binary(secret_text \o DELIMITER))
       IN  /\ output.width = image.width
           /\ output.height = image.height
           /\ Len(output.pixels) = Len(image.pixels)
           /\ \A k \in 1..Len(image.pixels) :
                 IF k <= n
                 THEN output.pixels[k] - (output.pixels[k] % 2)
                        = image.pixels[k] - (image.pixels[k] % 2)
                 ELSE output.pixels[k] = image.pixels[k]

\* A saved buffer with changed values below n and untouched ones above.
C4_Witness ==
    /\ output.readable
    /\ result = hidden
    /\ Len(binary_secret) < Len(image.pixels)
    /\ \E k \in 1..Len(binary_secret) : output.pixels[k] # image.pixels[k]

\* The text of the complete 8-bit groups of a buffer's LSB stream, most
\* significant bit first; a trailing group of fewer than 8 bits is dropped.
GroupedLsbText(flat) ==
    [g \in 1..(Len(flat) \div 8) |->
        (flat[8 * g - 7] % 2) * 128 + (flat[8 * g - 6] % 2) * 64
      + (flat[8 * g - 5] % 2) * 32 + (flat[8 * g - 4] % 2) * 16
      + (flat[8 * g - 3] % 2) * 8 + (flat[8 * g - 2] % 2) * 4
      + (flat[8 * g - 1] % 2) * 2 + (flat[8 * g] % 2)]

\* decode is scanning flat_array, or has scanned it and returned.
DecodeScanning == pc = "decode_loop"
DecodeReturned ==
    pc = "idle" /\ result.op = "decode" /\ result # decode_except

\* C5: on a buffer whose byte-grouped LSB stream holds no terminator, decode
\* reads the channel values one by one in order, each exactly once (after i
\* iterations binary_message holds the LSBs of the first i values and
\* nothing else), never runs past the buffer, returns once the buffer is
\* exhausted (after len(buffer) iterations) and not before, and returns
\* (False, no message found), not a fault.
C5_NoMessage ==
    (DecodeScanning \/ DecodeReturned)
    => LET text == GroupedLsbText(flat_array)
           scanned == \A k \in 1..i : binary_message[k] = flat_array[k] % 2
       IN  ~HasTerminator(text)
           => /\ DecodeScanning
                 => /\ i <= Len(flat_array)
                    /\ Len(binary_message) = i
                    /\ scanned
                    /\ result = NoResult
                    /\ i < Len(flat_array) => ~ENABLED DecodeExhausted
                    /\ i = Len(flat_array) => ENABLED DecodeExhausted
              /\ DecodeReturned
                 => /\ result = no_message
                    /\ ~result.raised
                    /\ i = Len(flat_array)
                    /\ Len(binary_message) = Len(flat_array)
                    /\ scanned

\* decode has scanned a carrier of all-zero LSBs to its end.
C5_Witness ==
    /\ DecodeReturned
    /\ source = "image"
    /\ Len(flat_array) >= 8 * Len(DELIMITER)
    /\ \A k \in 1..Len(flat_array) : flat_array[k] % 2 = 0
    /\ result = no_message
    /\ i = Len(flat_array)

\* C6: when the payload (of 8-bit characters) contains the terminator and
\* fits the carrier, decode(encode(buffer, T)) is the success (True, P) with
\* P the part of T before the first terminator in T.
C6_TerminatorLiteral ==
    (DecodedOutput /\ EightBit(secret_text) /\ HasTerminator(secret_text))
    => result = extracted(BeforeFirstTerminator(secret_text))

\* A payload with text on both sides of a terminator came back cut.
C6_Witness ==
    /\ DecodedOutput
    /\ EightBit(secret_text)
    /\ HasTerminator(secret_text)
    /\ result.success
    /\ Len(result.text) >= 1
    /\ Len(result.text) + Len(DELIMITER) < Len(secret_text)

\* C7: no call ends by an exception; encode and decode return a success
\* flag with one of their messages, False on every failure path;
\* get_max_capacity returns 0 for an image that cannot be read.
C7_NoFaultEscapes ==
    /\ ~result.raised
    /\ result.op = "encode"
       => \/ result.success /\ result.kind = "hidden"
          \/ ~result.success /\ result.kind \in {"too_small", "encoding_error"}
    /\ result.op = "decode"
       => \/ result.success /\ result.kind = "extracted"
          \/ ~result.success /\ result.kind \in {"no_message", "decoding_error"}
    /\ (result.op = "encode" /\ ~image.readable)
       => result.kind = "encoding_error"
    /\ (result.op = "decode" /\ source = "image" /\ ~image.readable)
       => result.kind = "decoding_error"
    /\ (result.op = "get_max_capacity" /\ ~image.readable)
       => result.value = 0

\* encode returned its fault message for a carrier that cannot be read.
C7_Witness ==
    /\ EncodeReturned
    /\ ~image.readable
    /\ ~result.success
    /\ result.kind = "encoding_error"

\* C8, as claimed: encode of a payload with a character above 255 returns
\* a failure and saves nothing; and a bitstream encode has written into a
\* saved buffer has 8 * (len(T) + 7) bits, 8 for each character.
C8_WidePayloadRejected ==
    /\ ~EightBit(secret_text)
       => /\ ~output.readable
          /\ EncodeReturned => ~result.success
    /\ (EncodeReturned /\ result.success)
       => Len(binary_secret) = 8 * (Len(secret_text) + Len(DELIMITER))

\* The one-shot reference: decode every complete group at once.
ReferenceDecode(flat) ==
    LET text == GroupedLsbText(flat)
    IN  IF HasTerminator(text) THEN extracted(BeforeFirstTerminator(text))
        ELSE no_message

\* The linear scan: read character k, keep the last len(DELIMITER)
\* characters in a window, stop when the window is the terminator.
RECURSIVE RollingScan(_, _, _)
RollingScan(text, k, window) ==
    IF k > Len(text) THEN no_message
    ELSE LET grown == Append(window, text[k])
             next == IF Len(grown) > Len(DELIMITER) THEN Tail(grown)
                     ELSE grown
         IN  IF next = DELIMITER
             THEN extracted(SubSeq(text, 1, k - Len(DELIMITER)))
             ELSE RollingScan(text, k + 1, next)

RollingDecode(flat) == RollingScan(GroupedLsbText(flat), 1, <<>>)

\* C9: what decode returns for a buffer is what the one-shot reference
\* returns for it, and what the rolling-window scan returns for it.
C9_DecodeEquivalence ==
    DecodeReturned
    => /\ result = ReferenceDecode(flat_array)
       /\ result = RollingDecode(flat_array)

\* decode found a message in a buffer whose length is no multiple of 8 and
\* that goes on after the terminator.
C9_Witness ==
    /\ DecodeReturned
    /\ result.success
    /\ Len(result.text) >= 1
    /\ Len(flat_array) % 8 # 0
    /\ i + 8 < Len(flat_array)

\* C10: for a readable carrier and a payload of 8-bit characters, encode
\* returns its too-small error exactly when len(T) > get_max_capacity, and
\* enters its write loop only when len(T) <= get_max_capacity.
C10_ChecksAgree ==
    (image.readable /\ EightBit(secret_text))
    => /\ EncodeReturned => (result = too_small <=> Len(secret_text) > Capacity)
       /\ pc = "encode_loop" => Len(secret_text) <= Capacity

\* encode rejected the empty payload on a carrier smaller than the
\* terminator, whose capacity is negative.
C10_Witness ==
    /\ EncodeReturned
    /\ image.readable
    /\ Len(image.pixels) < 8 * Len(DELIMITER)
    /\ secret_text = <<>>
    /\ Capacity < 0
    /\ result = too_small

\* The places of event e in the run of the handler.
EventAt(e) == {k \in 1..Len(handler.events) : handler.events[k] = e}

Happened(e) == EventAt(e) # {}

\* Every e1 and every e2 of the run are in this order.
Before(e1, e2) == \A k1 \in EventAt(e1), k2 \in EventAt(e2) : k1 < k2

\* What get_max_capacity returns for the uploaded file.
UploadCapacity ==
    IF handler.upload.readable
    THEN max_chars(handler.upload.width, handler.upload.height)
    ELSE 0

\* encode is called only after the non-empty check passed and after
\* get_max_capacity was called on the saved upload, with
\* len(secret_text) <= the capacity it returned.
C11_EncodeAfterChecks ==
    Happened("encode")
    => /\ secret_text # <<>>
       /\ Happened("validated") /\ Happened("save")
       /\ Happened("get_max_capacity")
       /\ Before("validated", "save")
       /\ Before("save", "get_max_capacity")
       /\ Before("get_max_capacity", "encode")
       /\ handler.max_capacity = UploadCapacity
       /\ Len(secret_text) <= handler.max_capacity

\* When the payload is empty or longer than the capacity, encode is never
\* called and the response is a failure.
C11_FailedCheckNoEncode ==
    (secret_text = <<>> \/ Len(secret_text) > UploadCapacity)
    => /\ ~Happened("encode")
       /\ pc = "idle" /\ ~output.readable
       /\ handler.at = "responded" => handler.status >= 400

\* os.remove(input_path) was called after the save and before the response.
C11_RemoveCalledFirst ==
    (handler.at = "responded" /\ Happened("save"))
    => /\ Happened("remove")
       /\ Before("save", "remove")
       /\ Before("remove", "respond")

\* C11, as claimed: encode is invoked only after both checks passed, a
\* failed check is answered with a failure without invoking encode, and on
\* every path that reaches a response after the upload was saved the
\* temporary input file has been removed first (stated here for the
\* responses the handler itself returns).
C11_HandlerOrdering ==
    /\ C11_EncodeAfterChecks
    /\ C11_FailedCheckNoEncode
    /\ C11_RemoveCalledFirst
    /\ (handler.at = "responded" /\ Happened("save")
          /\ handler.message # "unhandled")
       => ~handler.input_exists

\* C11, amended: encode is invoked only after both checks passed, a failed
\* check is answered with a failure without invoking encode, and on every
\* path that reaches a response after the upload was saved os.remove has
\* been called on the temporary input file first; the file is gone unless
\* that call raised.
C11_HandlerOrderingBestEffort ==
    /\ C11_EncodeAfterChecks
    /\ C11_FailedCheckNoEncode
    /\ C11_RemoveCalledFirst
    /\ (handler.at = "responded" /\ Happened("save")
          /\ ~Happened("remove_raised"))
       => ~handler.input_exists

\* A run that passed both checks, encoded, removed the input file and
\* answered with success.
C11_Witness ==
    /\ handler.at = "responded"
    /\ handler.status = 200
    /\ handler.events = <<"validated", "save", "get_max_capacity", "encode",
                          "remove", "respond">>
    /\ ~handler.input_exists
    /\ output.readable

====
